---- MODULE Spec2Model ----
(***************************************************************************)
(* Document parser, category guesser, catalog merger and batch importer of *)
(* the quotation import pipeline (import_from_pdf.py, PDFEstimateImporter) *)
(* together with its callers in app.py (upload_pdf, check_and_setup_data)  *)
(* and main().                                                             *)
(*                                                                         *)
(* Spec, SpecBatch and SpecTwice follow the merger and its callers and     *)
(* write a name as one string; SpecText, SpecTable, SpecPrice and          *)
(* SpecClassify follow parse_pdf_estimate and _guess_category and write a  *)
(* text as the sequence of its pieces.                                     *)
(*                                                                         *)
(* Strings of the program are written in ASCII: "KK_Sample" stands for a   *)
(* company name such as "kabushiki-gaisha Sample", "ko"/"dai" for the unit *)
(* tokens, "kaden" for the appliance category, "sonota" for the fallback   *)
(* category, and so on.                                                    *)
(***************************************************************************)
EXTENDS Integers, Sequences, FiniteSets, TLC

VARIABLES
    customers,   \* customers table as seen through the importer's connection
    products,    \* products table as seen through the importer's connection
    committed,   \* the tables on disk: what any other connection reads
    pc,          \* position of the running caller
    caller,      \* which entry point drives the importer
    files,       \* number of files of the glob not yet taken by the loop
    data,        \* result of parse_pdf_estimate for the current file
    todo,        \* line items of data['products'] the loop has not reached yet
    call,        \* arguments of the last merge call
    ret,         \* value returned by the last merge call
    outcome,     \* what the last merge call did (the message it printed)
    commits,     \* number of conn.commit() calls of this run
    log,         \* per document of this run: how it ended and what it merged
    merged,      \* history: per product name, the largest price given to
                 \* import_product so far (0: none above 0)
    counters,    \* customers_imported / products_imported of import_all_pdfs,
                 \* customers_added / products_added of upload_pdf
    tally,       \* history: the merge calls of this run that created, updated
                 \* or skipped a row, per table
    calls,       \* history: the merge calls made for the current document, in
                 \* order (item 0: the customer merge, item k: line item k)
    pdf,         \* what pdfplumber hands to parse_pdf_estimate: the lines of
                 \* the page being read, or the table row being read
    pos          \* index of the line (i of enumerate(lines)) or of the row
                 \* that is taken next

vars == <<customers, products, committed, pc, caller, files, data, todo,
          call, ret, outcome, commits, log, merged, counters, tally, calls, pdf, pos>>

(***************************************************************************)
(* Bounds of the model.                                                    *)
(***************************************************************************)
MaxPrice == 2    \* prices are drawn from -1 .. MaxPrice
MaxItems == 2    \* line items per parsed document
MaxFiles == 2    \* files matched by the glob of one batch

None == "None"   \* Python None, SQL NULL
NoId == 0        \* None returned in place of a row id (row ids start at 1)

CompanyNames == {"KK_Sample", "Test_KK"}
Addresses    == {None, "", "Tokyo"}
ProductNames == {"server_hoshu", "danball"}
Units        == {None, "ko", "dai"}
Prices       == (0 - 1) .. MaxPrice

(***************************************************************************)
(* Texts.  A text (the line of a page, the cell of a table, a product      *)
(* name) is the sequence of its pieces, each piece a character or a run of *)
(* characters that no test of the program cuts: " " is a whitespace        *)
(* character, ":" one of the three colons, "atesaki" the addressee label,  *)
(* "sagyobasho" the work-site label, "kabushiki_gaisha" a legal-entity     *)
(* word, "Tokyo" some other run of characters.  Every text is cut at least *)
(* as finely as the keywords it is searched for: "saaba" "choon" is the    *)
(* word for a server written with its long vowel mark, "saaba" the same    *)
(* word without it.                                                        *)
(***************************************************************************)
NoText == <<None>>     \* Python None where the other values are texts

\* needle in hay
Contains(needle, hay) ==
    \E k \in 0..(Len(hay) - Len(needle)) :
        SubSeq(hay, k + 1, k + Len(needle)) = needle

Has(piece, text) == Contains(<<piece>>, text)

\* str.strip()
Strip(text) ==
    LET inked == {k \in DOMAIN text : text[k] # " "}
    IN  IF inked = {} THEN <<>>
        ELSE SubSeq(text, CHOOSE k \in inked : \A m \in inked : k <= m,
                          CHOOSE k \in inked : \A m \in inked : m <= k)

(***************************************************************************)
(* _guess_category: the ordered category table and the keyword scan.       *)
(* The keywords are spelled as in the source, capitals included.           *)
(***************************************************************************)
Categories ==
    << [category |-> "it_kaihatsu",
        keywords |-> {<<"kaihatsu">>, <<"shisutemu">>, <<"puroguramu">>, <<"API">>,
                      <<"saaba", "choon">>, <<"kuraudo">>, <<"SaaS">>, <<"apuri">>,
                      <<"Web">>, <<"deetabeesu">>, <<"db">>, <<"tesuto">>,
                      <<"rebyuu">>, <<"sekkei">>}],
       [category |-> "network",
        keywords |-> {<<"ruutaa">>, <<"suicchi">>, <<"Wi-Fi">>, <<"LAN">>,
                      <<"nettowaaku">>, <<"keeburu">>, <<"HDMI">>}],
       [category |-> "hardware",
        keywords |-> {<<"pasokon">>, <<"PC">>, <<"saaba">>, <<"monitaa">>,
                      <<"purintaa">>, <<"fukugoki">>, <<"taburetto">>,
                      <<"nooto", "PC">>, <<"Laptop">>}],
       [category |-> "service",
        keywords |-> {<<"hoshu">>, <<"mentenansu">>, <<"sagyo">>, <<"shien">>,
                      <<"sapooto">>, <<"puran">>, <<"raisensu">>, <<"onsaito">>,
                      <<"unyo">>}],
       [category |-> "software",
        keywords |-> {<<"Office">>, <<"Microsoft">>, <<"Google">>, <<"Workspace">>,
                      <<"sofutowea">>, <<"apuri", "keeshon">>}],
       [category |-> "kaden",
        keywords |-> {<<"reizoko">>, <<"sentakuki">>, <<"eakon">>,
                      <<"denshi_renji">>, <<"terebi">>}],
       [category |-> "kagu",
        keywords |-> {<<"teeburu">>, <<"isu">>, <<"desuku">>, <<"chea">>,
                      <<"tana">>}] >>

\* str.lower() of one piece: the pieces written with capitals
LowerPiece(piece) ==
    CASE piece = "API"       -> "api"
      [] piece = "SaaS"      -> "saas"
      [] piece = "Web"       -> "web"
      [] piece = "Wi-Fi"     -> "wi-fi"
      [] piece = "LAN"       -> "lan"
      [] piece = "HDMI"      -> "hdmi"
      [] piece = "PC"        -> "pc"
      [] piece = "Pc"        -> "pc"
      [] piece = "Laptop"    -> "laptop"
      [] piece = "Office"    -> "office"
      [] piece = "Microsoft" -> "microsoft"
      [] piece = "Google"    -> "google"
      [] piece = "Workspace" -> "workspace"
      [] OTHER               -> piece

\* str.lower()
Lower(text) == [k \in DOMAIN text |-> LowerPiece(text[k])]

\* variant of ScanCategories that takes the categories from the last one
RECURSIVE ScanCategoriesFromLast(_, _)
ScanCategoriesFromLast(k, product_lower) ==
    IF k > Len(Categories) THEN "sonota"
    ELSE IF \E keyword \in Categories[Len(Categories) + 1 - k].keywords :
                Contains(Lower(keyword), product_lower)
    THEN Categories[Len(Categories) + 1 - k].category
    ELSE ScanCategoriesFromLast(k + 1, product_lower)

\* for category, keywords in categories.items(): for keyword in keywords:
\*     if keyword.lower() in product_lower: return category
\* return 'sonota'
RECURSIVE ScanCategories(_, _)
ScanCategories(k, product_lower) ==
    IF k > Len(Categories) THEN "sonota"
    ELSE IF \E keyword \in Categories[k].keywords :
                Contains(Lower(keyword), product_lower)
    THEN Categories[k].category
    ELSE ScanCategories(k + 1, product_lower)

\* _guess_category of a product name given as a text
GuessCategoryOf(text) == ScanCategories(1, Lower(text))

\* the product names of the merger, spelled out
Letters(product_name) ==
    CASE product_name = "server_hoshu" -> <<"saaba", "choon", "hoshu">>
      [] product_name = "danball"      -> <<"danbooru">>
      [] OTHER                         -> <<>>

GuessCategory(product_name) == GuessCategoryOf(Letters(product_name))

(***************************************************************************)
(* The store: rows, lookup by name, AUTOINCREMENT keys, NOT NULL columns.  *)
(***************************************************************************)
EmptyTables == [customers |-> <<>>, products |-> <<>>]

NextId(table, key) ==
    IF table = <<>> THEN 1
    ELSE 1 + (CHOOSE m \in {table[i][key] : i \in 1..Len(table)} :
                 \A i \in 1..Len(table) : table[i][key] <= m)

\* variant without the lookup: the name is never found
ExistingCustomerNone(cs, customer_name) == <<>>

\* SELECT customer_id FROM customers WHERE company_name = ? ; fetchone()
ExistingCustomer(cs, customer_name) ==
    SelectSeq(cs, LAMBDA r : r.company_name = customer_name)

\* variant without the lookup: the name is never found
ExistingProductNone(ps, product_name) == <<>>

\* SELECT product_id, base_price FROM products WHERE product_name = ? ; fetchone()
ExistingProduct(ps, product_name) ==
    SelectSeq(ps, LAMBDA r : r.product_name = product_name)

\* customers.address TEXT NOT NULL: the INSERT of a NULL address fails
AddressAccepted(address) == address # None

\* if not customer_name
NoCustomerName(customer_name) == customer_name = None \/ customer_name = ""

\* variant: base_price < 0 in place of base_price <= 0
NoProductNegative(product_name, base_price) ==
    product_name = None \/ product_name = "" \/ base_price < 0

\* if not product_name or base_price <= 0
NoProduct(product_name, base_price) ==
    product_name = None \/ product_name = "" \/ base_price <= 0

\* variants of the price comparison: the last price wins, >= in place of >,
\* any other price wins
PriceAlwaysHigher(base_price, current_price) == TRUE
PriceNotLower(base_price, current_price) == base_price >= current_price
PriceDiffers(base_price, current_price) == base_price # current_price

\* if base_price > current_price
PriceIsHigher(base_price, current_price) == base_price > current_price

\* variant of import_customer that overwrites the address of an existing row
ImportCustomerOverwrite(cs, customer_name, address) ==
    IF NoCustomerName(customer_name)
    THEN [table |-> cs, ret |-> NoId, outcome |-> "noop"]
    ELSE LET existing == ExistingCustomer(cs, customer_name)
         IN  IF existing # <<>>
             THEN [table |-> [i \in 1..Len(cs) |->
                                IF cs[i].company_name = customer_name
                                THEN [cs[i] EXCEPT !.address = address]
                                ELSE cs[i]],
                   ret |-> existing[1].customer_id, outcome |-> "skipped"]
             ELSE IF ~AddressAccepted(address)
             THEN [table |-> cs, ret |-> NoId, outcome |-> "raised"]
             ELSE [table |-> Append(cs, [customer_id  |-> NextId(cs, "customer_id"),
                                         company_name |-> customer_name,
                                         address      |-> address,
                                         phone        |-> "",
                                         email        |-> ""]),
                   ret |-> NextId(cs, "customer_id"), outcome |-> "created"]

(***************************************************************************)
(* import_customer as a function of the table: the new table, the value    *)
(* returned and what happened ("raised": sqlite3.IntegrityError).          *)
(***************************************************************************)
ImportCustomer(cs, customer_name, address) ==
    IF NoCustomerName(customer_name)
    THEN [table |-> cs, ret |-> NoId, outcome |-> "noop"]
    ELSE LET existing == ExistingCustomer(cs, customer_name)
         IN  IF existing # <<>>
             THEN [table |-> cs, ret |-> existing[1].customer_id,
                   outcome |-> "skipped"]
             ELSE IF ~AddressAccepted(address)
             THEN [table |-> cs, ret |-> NoId, outcome |-> "raised"]
             ELSE LET customer_id == NextId(cs, "customer_id")
                  IN  [table |-> Append(cs, [customer_id  |-> customer_id,
                                             company_name |-> customer_name,
                                             address      |-> address,
                                             phone        |-> "",
                                             email        |-> ""]),
                       ret |-> customer_id, outcome |-> "created"]

\* variant of UpdateProduct that leaves the unit of the row as it is
UpdateProductPriceOnly(ps, existing_id, base_price, unit) ==
    [i \in 1..Len(ps) |->
        IF ps[i].product_id = existing_id
        THEN [ps[i] EXCEPT !.base_price = base_price]
        ELSE ps[i]]

\* UPDATE products SET base_price = ?, unit = ? WHERE product_id = ?
UpdateProduct(ps, existing_id, base_price, unit) ==
    [i \in 1..Len(ps) |->
        IF ps[i].product_id = existing_id
        THEN [ps[i] EXCEPT !.base_price = base_price, !.unit = unit]
        ELSE ps[i]]

ImportProduct(ps, product_name, unit, base_price) ==
    IF NoProduct(product_name, base_price)
    THEN [table |-> ps, ret |-> NoId, outcome |-> "noop"]
    ELSE LET existing == ExistingProduct(ps, product_name)
         IN  IF existing # <<>>
             THEN IF PriceIsHigher(base_price, existing[1].base_price)
                  THEN [table |-> UpdateProduct(ps, existing[1].product_id,
                                                base_price, unit),
                        ret |-> existing[1].product_id, outcome |-> "updated"]
                  ELSE [table |-> ps, ret |-> existing[1].product_id,
                        outcome |-> "skipped"]
             ELSE LET product_id == NextId(ps, "product_id")
                  IN  [table |-> Append(ps, [product_id       |-> product_id,
                                             product_name     |-> product_name,
                                             product_category |->
                                                 GuessCategory(product_name),
                                             base_price       |-> base_price,
                                             unit             |-> unit]),
                       ret |-> product_id, outcome |-> "created"]

NoCall == [op |-> "none"]

\* customers_imported = 0, products_imported = 0
NoCounters == [customers |-> 0, products |-> 0]

\* no page has been read
NoPdf == <<>>

\* parse_pdf_estimate returns None when the document cannot be read
Unreadable == [parsed |-> FALSE]

(***************************************************************************)
(* Spec: one importer session on an empty database (create_tables), its    *)
(* client calling import_customer and import_product with any arguments,   *)
(* in any order.  An exception of a call reaches the client; the           *)
(* connection and its open transaction stay as they are.                   *)
(***************************************************************************)
Init ==
    /\ customers = <<>>
    /\ products = <<>>
    /\ committed = EmptyTables
    /\ pc = "session"
    /\ caller = "client"
    /\ files = 0
    /\ data = Unreadable
    /\ todo = 0
    /\ call = NoCall
    /\ ret = NoId
    /\ outcome = "none"
    /\ commits = 0
    /\ log = <<>>
    /\ merged = [n \in ProductNames |-> 0]
    /\ counters = NoCounters
    /\ tally = NoCounters
    /\ calls = <<>>
    /\ pdf = NoPdf
    /\ pos = 0

CallImportCustomer ==
    /\ pc = "session"
    /\ \E customer_name \in CompanyNames \cup {None, ""}, address \in Addresses :
         LET r == ImportCustomer(customers, customer_name, address)
         IN  /\ customers' = r.table
             /\ ret' = r.ret
             /\ outcome' = r.outcome
             /\ call' = [op |-> "import_customer",
                         customer_name |-> customer_name, address |-> address]
    /\ UNCHANGED <<products, committed, pc, caller, files, data, todo, commits, log,
                   merged, counters, tally, calls, pdf, pos>>

CallImportProduct ==
    /\ pc = "session"
    /\ \E product_name \in ProductNames \cup {None, ""}, unit \in Units,
          base_price \in Prices :
         LET r == ImportProduct(products, product_name, unit, base_price)
         IN  /\ products' = r.table
             /\ ret' = r.ret
             /\ outcome' = r.outcome
             /\ call' = [op |-> "import_product", product_name |-> product_name,
                         unit |-> unit, base_price |-> base_price]
             /\ merged' = IF product_name \in ProductNames
                          THEN [merged EXCEPT ![product_name] =
                                   IF base_price > @ THEN base_price ELSE @]
                          ELSE merged
    /\ UNCHANGED <<customers, committed, pc, caller, files, data, todo, commits, log,
                   counters, tally, calls, pdf, pos>>

Next == CallImportCustomer \/ CallImportProduct

Spec == Init /\ [][Next]_vars

(***************************************************************************)
(* SpecBatch: one run of one caller of the importer on a freshly created   *)
(* database: import_all_pdfs (under main), upload_pdf (one uploaded file)  *)
(* or check_and_setup_data.  The run is followed statement by statement:   *)
(* the glob, then per file the parse, the customer merge and one product   *)
(* merge per line item, then the commit.  The line items of a parsed       *)
(* document are read off one per iteration of the product loop.            *)
(*                                                                         *)
(* log keeps, per document taken by the loop, how its handling ended       *)
(* ("unreadable", "open", "merged", "error"), the records (table, name)    *)
(* for which a merge call returned an id and the number of messages by     *)
(* which the caller reported the document as failed.                       *)
(***************************************************************************)
Callers == {"import_all_pdfs", "upload_pdf", "check_and_setup_data"}

ParseResults ==
    {Unreadable} \cup [parsed        : {TRUE},
                       customer_name : CompanyNames \cup {None},
                       address       : Addresses,
                       items         : 0..MaxItems]

\* the line items a parsed document may carry (a name that is empty after
\* cleaning and a price of 0 included)
LineItems ==
    [name : {"server_hoshu", ""}, unit : Units \ {None}, base_price : 0..MaxPrice]

InitBatch ==
    /\ customers = <<>>
    /\ products = <<>>
    /\ committed = EmptyTables
    /\ pc = "idle"
    /\ caller = "none"
    /\ files = 0
    /\ data = Unreadable
    /\ todo = 0
    /\ call = NoCall
    /\ ret = NoId
    /\ outcome = "none"
    /\ commits = 0
    /\ log = <<>>
    /\ merged = [n \in ProductNames |-> 0]
    /\ counters = NoCounters
    /\ tally = NoCounters
    /\ calls = <<>>
    /\ pdf = NoPdf
    /\ pos = 0

SetLast(l, field, value) == [l EXCEPT ![Len(l)][field] = value]

\* what the caller reports when parse_pdf_estimate returned None
\*   import_all_pdfs: print("  [warning] PDF parse failed"); continue
\*   upload_pdf: return jsonify({'success': False, 'error': ...})
\*   check_and_setup_data: nothing (if data and ...)
WarnedUnreadable(c) == IF c = "check_and_setup_data" THEN 0 ELSE 1

\* what the caller reports when a merge call raised
\*   import_all_pdfs: nothing, the exception leaves the function
\*   upload_pdf: return jsonify({'success': False, 'error': str(e)})
\*   check_and_setup_data: print(f"  [!] {file}: {e}")
WarnedRaised(c) == IF c = "import_all_pdfs" THEN 0 ELSE 1

\* the counter n after a merge call that returned r
\*   import_all_pdfs: customers_imported += 1, products_imported += 1
\*   upload_pdf: if customer_id: customers_added = 1
\*               if product_id: products_added += 1
\*   check_and_setup_data keeps no counter
CountCall(c, n, r) ==
    CASE c = "import_all_pdfs" -> n + 1
      [] c = "upload_pdf"      -> IF r # NoId THEN n + 1 ELSE n
      [] OTHER                 -> n

\* a document as the loop takes it up
OpenEntry(status, warned) == [status |-> status, recs |-> {}, warned |-> warned]

\* the merge outcomes that a report lists by kind
OutcomeKinds == {"created", "updated", "skipped"}

Tally(n, result) == IF result \in OutcomeKinds THEN n + 1 ELSE n

\* conn.close() with an open transaction: the uncommitted changes are lost
Rollback ==
    /\ customers' = committed.customers
    /\ products' = committed.products

\* files = glob.glob(pattern); if not files: return
\* upload_pdf handles the one file of the request;
\* check_and_setup_data runs its import when a table is empty and files exist
Start ==
    /\ pc = "idle"
    /\ \E c \in Callers, n \in 0..MaxFiles :
         /\ c = "upload_pdf" => n = 1
         /\ c = "check_and_setup_data" =>
                committed.customers = <<>> \/ committed.products = <<>>
         /\ caller' = c
         /\ files' = n
         /\ pc' = IF n = 0 THEN "returned" ELSE "loop"
    /\ UNCHANGED <<customers, products, committed, data, todo, call, ret,
                   outcome, commits, log, merged, counters, tally, calls, pdf, pos>>

\* for filepath in files: data = self.parse_pdf_estimate(filepath)
\* if not data: continue            (upload_pdf: close and return the error)
ParseFile ==
    /\ pc = "loop"
    /\ files > 0
    /\ \E d \in ParseResults :
         /\ data' = d
         /\ files' = files - 1
         /\ calls' = <<>>
         /\ IF ~d.parsed
            THEN /\ log' = Append(log, OpenEntry("unreadable",
                                                 WarnedUnreadable(caller)))
                 /\ todo' = 0
                 /\ pc' = IF caller = "upload_pdf" THEN "failed" ELSE "loop"
            ELSE /\ log' = Append(log, OpenEntry("open", 0))
                 /\ todo' = d.items
                 /\ pc' = "customer"
    /\ UNCHANGED <<customers, products, committed, caller, call, ret, outcome,
                   commits, merged, counters, tally, pdf, pos>>

\* where an exception raised by a merge call ends up
\*   import_all_pdfs: nothing catches it; main's finally closes the connection
\*   upload_pdf: except Exception returns the error; the connection is dropped
\*   check_and_setup_data: except Exception inside the file loop, next file
AfterException(c) ==
    CASE c = "import_all_pdfs"      -> "aborted"
      [] c = "upload_pdf"           -> "failed"
      [] c = "check_and_setup_data" -> "loop"

\* if data['customer_name']: self.import_customer(data['customer_name'], data['address'])
MergeCustomer ==
    /\ pc = "customer"
    /\ IF data.customer_name = None
       THEN /\ pc' = "products"
            /\ UNCHANGED <<customers, products, call, ret, outcome, log,
                           counters, tally, calls>>
       ELSE LET r == ImportCustomer(customers, data.customer_name, data.address)
            IN  /\ ret' = r.ret
                /\ calls' = Append(calls, [op |-> "import_customer", item |-> 0])
                /\ outcome' = r.outcome
                /\ call' = NoCall
                /\ IF r.outcome = "raised"
                   THEN /\ pc' = AfterException(caller)
                        /\ log' = SetLast(SetLast(log, "status", "error"),
                                          "warned", WarnedRaised(caller))
                        /\ counters' = counters
                        /\ tally' = tally
                        /\ IF AfterException(caller) = "loop"
                           THEN UNCHANGED <<customers, products>>
                           ELSE Rollback
                   ELSE /\ pc' = "products"
                        /\ customers' = r.table
                        /\ products' = products
                        /\ counters' = [counters EXCEPT !.customers =
                                            CountCall(caller, @, r.ret)]
                        /\ tally' = [tally EXCEPT !.customers =
                                         Tally(@, r.outcome)]
                        /\ log' = SetLast(log, "recs", log[Len(log)].recs \cup
                                     {<<"customers", data.customer_name>>})
    /\ UNCHANGED <<committed, caller, files, data, todo, commits,
                   merged, pdf, pos>>

\* for product in data['products']: self.import_product(name, unit, base_price)
MergeProduct ==
    /\ pc = "products"
    /\ todo > 0
    /\ \E product \in LineItems :
         LET r == ImportProduct(products, product.name, product.unit,
                                product.base_price)
         IN  /\ products' = r.table
             /\ ret' = r.ret
             /\ outcome' = r.outcome
             /\ call' = NoCall
             /\ counters' = [counters EXCEPT !.products =
                                 CountCall(caller, @, r.ret)]
             /\ tally' = [tally EXCEPT !.products = Tally(@, r.outcome)]
             /\ log' = IF r.ret = NoId THEN log
                       ELSE SetLast(log, "recs", log[Len(log)].recs \cup
                                    {<<"products", product.name>>})
    /\ calls' = Append(calls, [op |-> "import_product",
                               item |-> data.items - todo + 1])
    /\ todo' = todo - 1
    /\ UNCHANGED <<customers, committed, pc, caller, files, data, commits,
                   merged, pdf, pos>>

\* the product loop is exhausted: on to the next file.  data, product and the
\* value of the last call are dead from here on (assigned before any read).
NextFile ==
    /\ pc = "products"
    /\ todo = 0
    /\ log' = SetLast(log, "status", "merged")
    /\ pc' = "loop"
    /\ data' = Unreadable
    /\ call' = NoCall
    /\ ret' = NoId
    /\ outcome' = "none"
    /\ UNCHANGED <<customers, products, committed, caller, files, todo, commits,
                   merged, counters, tally, calls, pdf, pos>>

\* variant of Commit that commits inside the loop, after every file
CommitEachFile ==
    /\ pc = "loop"
    /\ log # <<>>
    /\ committed' = [customers |-> customers, products |-> products]
    /\ commits' = commits + 1
    /\ pc' = IF files = 0 THEN "done" ELSE "loop"
    /\ UNCHANGED <<customers, products, caller, files, data, todo, call, ret,
                   outcome, log, merged, counters, tally, calls, pdf, pos>>

\* after the loop: self.conn.commit()
Commit ==
    /\ pc = "loop"
    /\ files = 0
    /\ committed' = [customers |-> customers, products |-> products]
    /\ commits' = commits + 1
    /\ pc' = "done"
    /\ UNCHANGED <<customers, products, caller, files, data, todo, call, ret,
                   outcome, log, merged, counters, tally, calls, pdf, pos>>

NextBatch ==
    Start \/ ParseFile \/ MergeCustomer \/ MergeProduct \/ NextFile \/ Commit

SpecBatch == InitBatch /\ [][NextBatch]_vars

(***************************************************************************)
(* SpecTwice: the same document is imported twice in a row, each time by a *)
(* whole run of one caller over that one file, on a freshly created        *)
(* database.  data holds the parse result with all its line items; log     *)
(* keeps, per run, the outcomes of its merge calls and the tables on disk  *)
(* after it.                                                               *)
(***************************************************************************)
SeqsUpTo(S, n) == UNION {[1..k -> S] : k \in 0..n}

Documents ==
    {Unreadable} \cup [parsed        : {TRUE},
                       customer_name : CompanyNames \cup {None},
                       address       : Addresses,
                       products      : SeqsUpTo(LineItems, MaxItems)]

\* for product in data['products']: self.import_product(...)
RECURSIVE MergeProducts(_, _, _)
MergeProducts(ps, items, outcomes) ==
    IF items = <<>> THEN [table |-> ps, outcomes |-> outcomes]
    ELSE LET r == ImportProduct(ps, Head(items).name, Head(items).unit,
                                Head(items).base_price)
         IN  MergeProducts(r.table, Tail(items), Append(outcomes, r.outcome))

\* the merges of one parsed document: the customer, then the line items in
\* order; an exception of the customer merge skips the line items
ImportDocument(tables, d) ==
    LET c == IF d.customer_name = None
             THEN [table |-> tables.customers, outcome |-> "none"]
             ELSE ImportCustomer(tables.customers, d.customer_name, d.address)
        first == IF c.outcome = "none" THEN <<>> ELSE <<c.outcome>>
    IN  IF c.outcome = "raised"
        THEN [customers |-> tables.customers, products |-> tables.products,
              outcomes |-> first, raised |-> TRUE]
        ELSE LET p == MergeProducts(tables.products, d.products, first)
             IN  [customers |-> c.table, products |-> p.table,
                  outcomes |-> p.outcomes, raised |-> FALSE]

\* one run of caller c over the one file d, from the tables on disk:
\* what the run leaves on disk and the outcomes of its merge calls
RunOver(c, tables, d) ==
    IF c = "check_and_setup_data" /\ tables.customers # <<>> /\ tables.products # <<>>
    THEN [tables |-> tables, outcomes |-> <<>>]
    ELSE IF ~d.parsed
    THEN [tables |-> tables, outcomes |-> <<>>]
    ELSE LET r == ImportDocument(tables, d)
         IN  IF r.raised /\ AfterException(c) # "loop"
             THEN [tables |-> tables, outcomes |-> r.outcomes]
             ELSE [tables |-> [customers |-> r.customers, products |-> r.products],
                   outcomes |-> r.outcomes]

InitTwice ==
    /\ customers = <<>>
    /\ products = <<>>
    /\ committed = EmptyTables
    /\ pc = "idle"
    /\ caller \in Callers
    /\ files = 1
    /\ data \in Documents
    /\ todo = 0
    /\ call = NoCall
    /\ ret = NoId
    /\ outcome = "none"
    /\ commits = 0
    /\ log = <<>>
    /\ merged = [n \in ProductNames |-> 0]
    /\ counters = NoCounters
    /\ tally = NoCounters
    /\ calls = <<>>
    /\ pdf = NoPdf
    /\ pos = 0

\* one whole run of the caller; the connection is closed when it ends
RunImporter ==
    /\ Len(log) < 2
    /\ LET r == RunOver(caller, committed, data)
       IN  /\ committed' = r.tables
           /\ customers' = r.tables.customers
           /\ products' = r.tables.products
           /\ log' = Append(log, [outcomes |-> r.outcomes, tables |-> r.tables])
    /\ pc' = "ended"
    /\ UNCHANGED <<caller, files, data, todo, call, ret, outcome, commits,
                   merged, counters, tally, calls, pdf, pos>>

NextTwice == RunImporter

SpecTwice == InitTwice /\ [][NextTwice]_vars

(***************************************************************************)
(* parse_pdf_estimate, the text of a page: the addressee scan and the      *)
(* address scan of one line.                                               *)
(***************************************************************************)
MaxLines == 3    \* lines of text per page

Lookahead == 4   \* range(i + 1, min(i + 5, len(lines)))

CompanyKeywords ==
    {"kabushiki_gaisha", "yugen_gaisha", "godo_gaisha", "ippan_shadan_hojin",
     "zaidan_hojin", "shadan_hojin", "iryo_hojin"}

SkippedMarkers == {"gotantou", "hakkoumoto"}

OtherLabels == {"sagyobi", "sagyomei", "koumoku"}

Separators == {":", " "}

\* the lines a page is made of
TextLines ==
    { <<"atesaki">>,
      <<"kabushiki_gaisha", "Sample">>,
      <<" ", "Test", "yugen_gaisha", " ">>,
      <<"gotantou", ":", "Yamada">>,
      <<>>,
      <<"sagyobasho", ":", " ", "Tokyo">>,
      <<"sagyobasho", ":", " ">>,
      <<"sagyobasho">>,
      <<"Osaka">>,
      <<"sagyobi", ":", "11_4">> }

\* variant of FindCompany that does not skip the lines with a marker
RECURSIVE FindCompanyAnyLine(_, _, _)
FindCompanyAnyLine(lines, j, last) ==
    IF j > last THEN NoText
    ELSE LET next_line == Strip(lines[j])
         IN  IF \E keyword \in CompanyKeywords : Has(keyword, next_line)
             THEN next_line
             ELSE FindCompanyAnyLine(lines, j + 1, last)

\* for j in range(i + 1, min(i + 5, len(lines))): the first line that is not
\* skipped and carries a company keyword, NoText when the loop runs out
RECURSIVE FindCompany(_, _, _)
FindCompany(lines, j, last) ==
    IF j > last THEN NoText
    ELSE LET next_line == Strip(lines[j])
         IN  IF \/ next_line = <<>>
                \/ \E marker \in SkippedMarkers : Has(marker, next_line)
             THEN FindCompany(lines, j + 1, last)
             ELSE IF \E keyword \in CompanyKeywords : Has(keyword, next_line)
             THEN next_line
             ELSE FindCompany(lines, j + 1, last)

\* if 'atesaki' in line: ... customer_name = next_line; break
ScanCustomer(lines, k, customer_name) ==
    IF ~Has("atesaki", lines[k]) THEN customer_name
    ELSE LET found == FindCompany(lines, k + 1,
                                  IF k + Lookahead < Len(lines)
                                  THEN k + Lookahead ELSE Len(lines))
         IN  IF found = NoText THEN customer_name ELSE found

\* the group (.+) of [colon or whitespace]+(.+) matched at the start of rest,
\* NoText when there is no match: the separators are taken greedily and give
\* one character back when nothing else is left for the group
GroupAfter(rest) ==
    LET others == {k \in DOMAIN rest : rest[k] \notin Separators}
        run == IF others = {} THEN Len(rest)
               ELSE (CHOOSE k \in others : \A m \in others : k <= m) - 1
    IN  IF run = 0 THEN NoText
        ELSE IF run < Len(rest) THEN SubSeq(rest, run + 1, Len(rest))
        ELSE IF run >= 2 THEN <<rest[Len(rest)]>>
        ELSE NoText

\* re.search(r'sagyobasho[colon or whitespace]+(.+)', line): group 1 of the
\* leftmost match
AddressMatch(line) ==
    LET matches == {k \in DOMAIN line :
                       /\ line[k] = "sagyobasho"
                       /\ GroupAfter(SubSeq(line, k + 1, Len(line))) # NoText}
    IN  IF matches = {} THEN NoText
        ELSE GroupAfter(SubSeq(line,
                               (CHOOSE k \in matches : \A m \in matches : k <= m) + 1,
                               Len(line)))

\* if 'sagyobasho' in line: the value after the label, else the next line
ScanAddress(lines, k, address) ==
    IF ~Has("sagyobasho", lines[k]) THEN address
    ELSE IF AddressMatch(lines[k]) # NoText THEN Strip(AddressMatch(lines[k]))
    ELSE IF k < Len(lines)
    THEN LET next_line == Strip(lines[k + 1])
         IN  IF /\ next_line # <<>>
                /\ ~\E label \in OtherLabels : Has(label, next_line)
             THEN next_line
             ELSE address
    ELSE address

(***************************************************************************)
(* SpecText: parse_pdf_estimate over a document whose pages carry text and *)
(* no table.  data holds the locals customer_name, address and products,   *)
(* which become the returned dict.  A page is read whole (extract_text),   *)
(* then scanned line by line; the document has any number of pages.        *)
(***************************************************************************)
Pages == SeqsUpTo(TextLines, MaxLines)

InitText ==
    /\ customers = <<>>
    /\ products = <<>>
    /\ committed = EmptyTables
    /\ pc = "pages"
    /\ caller = "parse_pdf_estimate"
    /\ files = 0
    /\ data = [parsed |-> TRUE, customer_name |-> NoText, address |-> NoText,
               products |-> <<>>]
    /\ todo = 0
    /\ call = NoCall
    /\ ret = NoId
    /\ outcome = "none"
    /\ commits = 0
    /\ log = <<>>
    /\ merged = [n \in ProductNames |-> 0]
    /\ counters = NoCounters
    /\ tally = NoCounters
    /\ calls = <<>>
    /\ pdf = NoPdf
    /\ pos = 0

\* for page in pdf.pages: text = page.extract_text(); lines = text.split('\n')
ExtractText ==
    /\ pc = "pages"
    /\ \E lines \in Pages : pdf' = lines
    /\ pos' = 1
    /\ pc' = "lines"
    /\ UNCHANGED <<customers, products, committed, caller, files, data, todo,
                   call, ret, outcome, commits, log, merged, counters, tally,
                   calls>>

\* for i, line in enumerate(lines): the two label tests of one line
ScanLine ==
    /\ pc = "lines"
    /\ pos <= Len(pdf)
    /\ data' = [data EXCEPT
                   !.customer_name = ScanCustomer(pdf, pos, @),
                   !.address = ScanAddress(pdf, pos, @)]
    /\ pos' = pos + 1
    /\ UNCHANGED <<customers, products, committed, pc, caller, files, todo,
                   call, ret, outcome, commits, log, merged, counters, tally,
                   calls, pdf>>

\* the lines of the page are exhausted (the page has no table)
EndOfPage ==
    /\ pc = "lines"
    /\ pos > Len(pdf)
    /\ pc' = "pages"
    /\ pdf' = NoPdf
    /\ pos' = 0
    /\ UNCHANGED <<customers, products, committed, caller, files, data, todo,
                   call, ret, outcome, commits, log, merged, counters, tally,
                   calls>>

\* return {'customer_name': ..., 'address': ..., 'products': ...}
ReturnData ==
    /\ pc = "pages"
    /\ pc' = "returned"
    /\ UNCHANGED <<customers, products, committed, caller, files, data, todo,
                   call, ret, outcome, commits, log, merged, counters, tally,
                   calls, pdf, pos>>

\* except Exception: return None (pdfplumber.open or extract_text raised)
RaiseInParse ==
    /\ pc = "pages"
    /\ data' = Unreadable
    /\ pc' = "returned"
    /\ UNCHANGED <<customers, products, committed, caller, files, todo,
                   call, ret, outcome, commits, log, merged, counters, tally,
                   calls, pdf, pos>>

NextText == ExtractText \/ ScanLine \/ EndOfPage \/ ReturnData \/ RaiseInParse

SpecText == InitText /\ [][NextText]_vars

(***************************************************************************)
(* SpecAddressee: the addressee scan over one page that is long enough for *)
(* a company line to lie beyond the lines the scan looks at.  The page is  *)
(* drawn at the start; ScanLine, EndOfPage and ReturnData are those of     *)
(* SpecText.                                                               *)
(***************************************************************************)
MaxPageLines == 6    \* lines of the page

AddresseeLines ==
    { <<"atesaki">>,
      <<" ", "Test", "yugen_gaisha", " ">>,
      <<"kabushiki_gaisha", "Sample">>,
      <<"hakkoumoto", ":", "kabushiki_gaisha", "Jisha">>,
      <<"Osaka">>,
      <<" ">> }

InitAddressee ==
    /\ customers = <<>>
    /\ products = <<>>
    /\ committed = EmptyTables
    /\ pc = "lines"
    /\ caller = "parse_pdf_estimate"
    /\ files = 0
    /\ data = [parsed |-> TRUE, customer_name |-> NoText, address |-> NoText,
               products |-> <<>>]
    /\ todo = 0
    /\ call = NoCall
    /\ ret = NoId
    /\ outcome = "none"
    /\ commits = 0
    /\ log = <<>>
    /\ merged = [n \in ProductNames |-> 0]
    /\ counters = NoCounters
    /\ tally = NoCounters
    /\ calls = <<>>
    /\ pdf \in SeqsUpTo(AddresseeLines, MaxPageLines)
    /\ pos = 1

NextAddressee == ScanLine \/ EndOfPage \/ ReturnData

SpecAddressee == InitAddressee /\ [][NextAddressee]_vars

(***************************************************************************)
(* parse_pdf_estimate, the price cell: re.sub(r'[yen signs, comma, en]',   *)
(* '', str(price_str)) and int(float(price_cleaned)).  The pieces of a     *)
(* price text are its characters: the digits, "," "." "-" "+" " ",         *)
(* "yen_full" and "yen_half" for the two yen signs, "en" for the yen       *)
(* character, "x" for a letter; "inf" is the word float() reads as         *)
(* infinity.                                                               *)
(***************************************************************************)
MaxAmount == 1200   \* amounts 0 .. MaxAmount are formatted and normalised

DigitChars == <<"0", "1", "2", "3", "4", "5", "6", "7", "8", "9">>

IsDigit(c) == \E d \in DOMAIN DigitChars : DigitChars[d] = c

DigitValue(c) == (CHOOSE d \in DOMAIN DigitChars : DigitChars[d] = c) - 1

\* the value of a run of digits (0 for the empty run)
RECURSIVE ValueOf(_)
ValueOf(digits) ==
    IF digits = <<>> THEN 0
    ELSE ValueOf(SubSeq(digits, 1, Len(digits) - 1)) * 10
         + DigitValue(digits[Len(digits)])

\* the decimal digits of n >= 0
RECURSIVE DigitsOf(_)
DigitsOf(n) ==
    IF n < 10 THEN <<DigitChars[n + 1]>>
    ELSE Append(DigitsOf(n \div 10), DigitChars[(n % 10) + 1])

\* the format spec ',': a comma before every group of three digits
RECURSIVE Grouped(_)
Grouped(digits) ==
    IF Len(digits) <= 3 THEN digits
    ELSE Grouped(SubSeq(digits, 1, Len(digits) - 3)) \o <<",">>
         \o SubSeq(digits, Len(digits) - 2, Len(digits))

YenGlyphs == {"yen_full", "yen_half"}

\* f"{glyph}{n:,}" and f"{n:,}en" as the program prints its prices
Format(n, glyph, en) ==
    <<glyph>> \o Grouped(DigitsOf(n)) \o (IF en THEN <<"en">> ELSE <<>>)

\* variant of Clean that leaves the commas in
CleanGlyphs(price_str) ==
    SelectSeq(price_str, LAMBDA c : c \notin {"yen_full", "yen_half", "en"})

\* re.sub(r'[yen_full yen_half , en]', '', str(price_str))
Clean(price_str) ==
    SelectSeq(price_str, LAMBDA c : c \notin {"yen_full", "yen_half", ",", "en"})

\* variant of IntOfFloat that reads a text that is no number as 0
IntOfFloatLenient(text) ==
    LET t == Strip(text)
        signed == t # <<>> /\ t[1] \in {"-", "+"}
        body == IF signed THEN Tail(t) ELSE t
        digits == SelectSeq(body, IsDigit)
    IN  [error |-> "none",
         value |-> IF signed /\ t[1] = "-" THEN 0 - ValueOf(digits)
                   ELSE ValueOf(digits)]

\* int(float(text)): surrounding whitespace and a sign are allowed, then
\* digits with at most one point and at least one digit; the fraction is cut
\* off.  Anything else is a ValueError, infinity an OverflowError.
IntOfFloat(text) ==
    LET t == Strip(text)
        signed == t # <<>> /\ t[1] \in {"-", "+"}
        body == IF signed THEN Tail(t) ELSE t
        points == {k \in DOMAIN body : body[k] = "."}
        point == IF points = {} THEN Len(body) + 1
                 ELSE CHOOSE k \in points : \A m \in points : k <= m
        whole == SubSeq(body, 1, point - 1)
        fraction == SubSeq(body, point + 1, Len(body))
    IN  IF body = <<"inf">>
        THEN [error |-> "OverflowError", value |-> 0]
        ELSE IF \/ Len(whole) + Len(fraction) = 0
                \/ \E k \in DOMAIN whole : ~IsDigit(whole[k])
                \/ \E k \in DOMAIN fraction : ~IsDigit(fraction[k])
        THEN [error |-> "ValueError", value |-> 0]
        ELSE [error |-> "none",
              value |-> IF signed /\ t[1] = "-" THEN 0 - ValueOf(whole)
                        ELSE ValueOf(whole)]

(***************************************************************************)
(* SpecPrice: the price cleaning applied to a price as the program formats *)
(* it (estimate_generator.py prints the unit price column of the documents *)
(* that come back as PDF).  call keeps the amount and the format; pdf is   *)
(* the price text.                                                         *)
(***************************************************************************)
Amounts == 0..MaxAmount \cup {12500, 999999, 1000000, 1234567, 2000000000}

InitPrice ==
    /\ customers = <<>>
    /\ products = <<>>
    /\ committed = EmptyTables
    /\ pc = "price_str"
    /\ caller = "parse_pdf_estimate"
    /\ files = 0
    /\ data = Unreadable
    /\ todo = 0
    /\ \E n \in Amounts, glyph \in YenGlyphs, en \in BOOLEAN :
         /\ call = [op |-> "format", n |-> n, glyph |-> glyph, en |-> en]
         /\ pdf = Format(n, glyph, en)
    /\ ret = NoId
    /\ outcome = "none"
    /\ commits = 0
    /\ log = <<>>
    /\ merged = [n \in ProductNames |-> 0]
    /\ counters = NoCounters
    /\ tally = NoCounters
    /\ calls = <<>>
    /\ pos = 0

\* price_cleaned = re.sub(...); base_price = int(float(price_cleaned))
NormalizePrice ==
    /\ pc = "price_str"
    /\ LET base_price == IntOfFloat(Clean(pdf))
       IN  /\ ret' = base_price.value
           /\ outcome' = base_price.error
    /\ pc' = "base_price"
    /\ UNCHANGED <<customers, products, committed, caller, files, data, todo,
                   call, commits, log, merged, counters, tally, calls, pdf, pos>>

NextPrice == NormalizePrice

SpecPrice == InitPrice /\ [][NextPrice]_vars

(***************************************************************************)
(* parse_pdf_estimate, the tables of a page: the header test and the       *)
(* handling of one row.  A table is read header first, then row by row.    *)
(***************************************************************************)
MaxRows == 3     \* rows read from one table

DefaultUnit == <<"ko">>

\* the first rows a table may have (<<>>: the table is empty, or its first
\* row is)
Headers ==
    { <<>>,
      << <<"koumoku">>, <<"hinmei", "shiyou">>, <<"suryo">>, <<"tani">>,
         <<"tanka">>, <<"kingaku">> >>,
      << NoText, <<"hinmei">> >>,
      << <<"hizuke">>, <<"kingaku">> >> }

\* variant of IsItemTable that takes every table with a first row
IsItemTableAnyHeader(header) == header # <<>>

\* if not any('hinmei' in str(cell) for cell in header if cell): continue
IsItemTable(header) ==
    \E k \in DOMAIN header :
        /\ header[k] # NoText
        /\ header[k] # <<>>
        /\ Has("hinmei", header[k])

NameCells  == {NoText, <<>>, <<"\n", " ">>, <<"saaba", "-", "\n", "hoshu", " ">>}
UnitCells  == {NoText, <<>>, <<"ko">>}
PriceCells == {NoText, <<"x">>, <<"yen_half", "en">>, <<"inf">>,
               <<"-", "5", "0", "0">>,
               <<"yen_full", "1", ",", "2", "0", "0", "en">>}

\* the rows a table may have: 3, 4 or 6 cells
\* [item, name and specification, quantity, unit, unit price, amount],
\* and rows of 4 cells that end with the unit price
Rows ==
    LET full == {<< <<"1">>, name, <<"2">>, unit, price, <<"x">> >> :
                    name \in NameCells, unit \in UnitCells, price \in PriceCells}
    IN  UNION {{SubSeq(row, 1, n) : row \in full} : n \in {3, 4, 6}}
        \cup {<< <<"1">>, name, <<"2">>, price >> :
                 name \in NameCells, price \in PriceCells}

\* product_name.replace('\n', ' ')
ReplaceNewlines(text) ==
    [k \in DOMAIN text |-> IF text[k] = "\n" THEN " " ELSE text[k]]

\* if not cell
IsEmptyCell(cell) == cell = NoText \/ cell = <<>>

\* the body of "for row in table[1:]": the list of products after the row
\* and the branch taken
ExtractRow(row, items) ==
    IF Len(row) < 4 THEN [products |-> items, outcome |-> "short"]
    ELSE LET product_name == IF Len(row) > 1 THEN row[2] ELSE NoText
             unit == IF Len(row) > 3 THEN row[4] ELSE DefaultUnit
             price_str == IF Len(row) > 4 THEN row[5] ELSE NoText
         IN  IF IsEmptyCell(product_name) \/ IsEmptyCell(price_str)
             THEN [products |-> items, outcome |-> "empty"]
             ELSE LET base_price == IntOfFloat(Clean(price_str))
                  IN  IF base_price.error # "none"
                      THEN [products |-> items, outcome |-> base_price.error]
                      ELSE [products |->
                               Append(items,
                                      [name |-> Strip(ReplaceNewlines(product_name)),
                                       unit |-> unit,
                                       base_price |-> base_price.value]),
                            outcome |-> "appended"]

(***************************************************************************)
(* SpecTable: parse_pdf_estimate over a document whose pages carry tables  *)
(* and no text.  pdf is the header or the row read last, log the indices   *)
(* of the rows of the current table whose price raised a ValueError.       *)
(***************************************************************************)
InitTable == InitText

\* for table in tables: header = table[0]
ExtractTable ==
    /\ pc = "pages"
    /\ \E header \in Headers :
         /\ pdf' = header
         /\ pc' = IF IsItemTable(header) THEN "rows" ELSE "pages"
         /\ pos' = IF IsItemTable(header) THEN 1 ELSE 0
    /\ log' = <<>>
    /\ UNCHANGED <<customers, products, committed, caller, files, data, todo,
                   call, ret, outcome, commits, merged, counters, tally, calls>>

\* for row in table[1:]
ReadRow ==
    /\ pc = "rows"
    /\ pos <= MaxRows
    /\ Len(data.products) < MaxItems
    /\ \E row \in Rows :
         LET r == ExtractRow(row, data.products)
         IN  /\ pdf' = row
             /\ data' = [data EXCEPT !.products = r.products]
             /\ outcome' = r.outcome
             /\ log' = IF r.outcome = "ValueError" THEN Append(log, pos)
                       ELSE log
    /\ pos' = pos + 1
    /\ UNCHANGED <<customers, products, committed, pc, caller, files, todo,
                   call, ret, commits, merged, counters, tally, calls>>

\* the rows of the table are exhausted
EndOfTable ==
    /\ pc = "rows"
    /\ pc' = "pages"
    /\ pdf' = NoPdf
    /\ pos' = 0
    /\ log' = <<>>
    /\ outcome' = "none"
    /\ UNCHANGED <<customers, products, committed, caller, files, data, todo,
                   call, ret, commits, merged, counters, tally, calls>>

NextTable == ExtractTable \/ ReadRow \/ EndOfTable \/ ReturnData \/ RaiseInParse

SpecTable == InitTable /\ [][NextTable]_vars

(***************************************************************************)
(* SpecClassify: _guess_category applied to a product name.  call keeps    *)
(* the name, outcome is the category returned.                             *)
(***************************************************************************)
MaxLen == 3      \* pieces of a product name

NamePieces ==
    {"saaba", "choon", "hoshu", "PC", "pc", "Pc", "nooto", "apuri", "keeshon",
     "danbooru"}

InitClassify ==
    /\ customers = <<>>
    /\ products = <<>>
    /\ committed = EmptyTables
    /\ pc = "product_name"
    /\ caller = "import_product"
    /\ files = 0
    /\ data = Unreadable
    /\ todo = 0
    /\ \E text \in SeqsUpTo(NamePieces, MaxLen) :
         call = [op |-> "_guess_category", product_name |-> text]
    /\ ret = NoId
    /\ outcome = "none"
    /\ commits = 0
    /\ log = <<>>
    /\ merged = [n \in ProductNames |-> 0]
    /\ counters = NoCounters
    /\ tally = NoCounters
    /\ calls = <<>>
    /\ pdf = NoPdf
    /\ pos = 0

\* category = self._guess_category(product_name)
Classify ==
    /\ pc = "product_name"
    /\ outcome' = GuessCategoryOf(call.product_name)
    /\ pc' = "category"
    /\ UNCHANGED <<customers, products, committed, caller, files, data, todo,
                   call, ret, commits, log, merged, counters, tally, calls, pdf,
                   pos>>

NextClassify == Classify

SpecClassify == InitClassify /\ [][NextClassify]_vars

(***************************************************************************)
(* SpecApp: the entry points of the program that write to the database     *)
(* file, one request at a time, each on a connection of its own: a caller  *)
(* of the importer over one file (the parse, then the merges and the       *)
(* commit), add_customer, the two distance-coefficient setters and         *)
(* update_all_customer_distances.  committed is the database file; the     *)
(* rows carry, beside the columns the importer names, the columns the      *)
(* other entry points write.                                               *)
(***************************************************************************)
MaxCustomers == 2    \* rows of the customers table

\* geocode_address: None, or the coordinates of the address
Coordinates == {None, "lat_lon"}

Coefficients == {"0.0", "0.02"}

AdjustmentTypes == {"fixed", "distance_proportional"}

\* the columns an INSERT of the importer does not name take their defaults:
\* latitude, longitude, distance_km NULL
StoredCustomers(cs) ==
    [i \in DOMAIN cs |->
        IF "latitude" \in DOMAIN cs[i] THEN cs[i]
        ELSE cs[i] @@ [latitude |-> None, longitude |-> None, distance_km |-> None]]

\* distance_coefficient REAL DEFAULT 0.0, price_adjustment_type TEXT DEFAULT 'fixed'
StoredProducts(ps) ==
    [i \in DOMAIN ps |->
        IF "distance_coefficient" \in DOMAIN ps[i] THEN ps[i]
        ELSE ps[i] @@ [distance_coefficient |-> "0.0",
                       price_adjustment_type |-> "fixed"]]

Stored(tables) == [customers |-> StoredCustomers(tables.customers),
                   products  |-> StoredProducts(tables.products)]

\* the documents the importer is given: at most one line item, counted in
\* "ko", and an address that is unset or "Tokyo"
AppDocuments ==
    {Unreadable} \cup
    [parsed        : {TRUE},
     customer_name : CompanyNames \cup {None},
     address       : {None, "Tokyo"},
     products      : SeqsUpTo({item \in LineItems : item.unit = "ko"}, 1)]

InitApp ==
    /\ customers = <<>>
    /\ products = <<>>
    /\ committed = EmptyTables
    /\ pc = "idle"
    /\ caller = "none"
    /\ files = 0
    /\ data = Unreadable
    /\ todo = 0
    /\ call = NoCall
    /\ ret = NoId
    /\ outcome = "none"
    /\ commits = 0
    /\ log = <<>>
    /\ merged = [n \in ProductNames |-> 0]
    /\ counters = NoCounters
    /\ tally = NoCounters
    /\ calls = <<>>
    /\ pdf = NoPdf
    /\ pos = 0

\* data = importer.parse_pdf_estimate(filepath)
AppParse ==
    /\ pc = "idle"
    /\ \E c \in Callers, d \in AppDocuments :
         /\ caller' = c
         /\ data' = d
    /\ pc' = "parsed"
    /\ call' = [op |-> "parse_pdf_estimate"]
    /\ UNCHANGED <<customers, products, committed, files, todo, ret, outcome,
                   commits, log, merged, counters, tally, calls, pdf, pos>>

\* the merges of the parsed document, then commit and close
AppMerge ==
    /\ pc = "parsed"
    /\ committed' = Stored(RunOver(caller, committed, data).tables)
    /\ Len(committed'.customers) <= MaxCustomers
    /\ call' = [op |-> "merge"]
    /\ data' = Unreadable
    /\ pc' = "idle"
    /\ UNCHANGED <<customers, products, caller, files, todo, ret, outcome,
                   commits, log, merged, counters, tally, calls, pdf, pos>>

\* add_customer: INSERT INTO customers (company_name, address, latitude,
\* longitude, distance_km, phone, email); a NULL company_name or address
\* fails (NOT NULL) and nothing is written
InsertCustomer(cs, company_name, address, coordinates, phone, email) ==
    IF company_name = None \/ address = None THEN cs
    ELSE Append(cs, [customer_id  |-> NextId(cs, "customer_id"),
                     company_name |-> company_name,
                     address      |-> address,
                     latitude     |-> coordinates,
                     longitude    |-> coordinates,
                     distance_km  |-> IF coordinates = None THEN None ELSE "km",
                     phone        |-> phone,
                     email        |-> email])

AddCustomer ==
    /\ pc = "idle"
    /\ Len(committed.customers) < MaxCustomers
    /\ \E company_name \in CompanyNames \cup {None}, address \in {None, "Tokyo"},
          coordinates \in Coordinates :
         /\ committed' = [committed EXCEPT !.customers =
                             InsertCustomer(@, company_name, address,
                                            coordinates, "03", "")]
         /\ call' = [op |-> "add_customer"]
    /\ caller' = "add_customer"
    /\ UNCHANGED <<customers, products, pc, files, data, todo, ret, outcome,
                   commits, log, merged, counters, tally, calls, pdf, pos>>

\* variant of SetCoefficient that also clears the price of the row
SetCoefficientAndPrice(row, coefficient, adjustment_type) ==
    [row EXCEPT !.distance_coefficient = coefficient,
                !.price_adjustment_type = adjustment_type,
                !.base_price = 0]

\* UPDATE products SET distance_coefficient = ?, price_adjustment_type = ?
\* as it changes one row that the WHERE clause selects
SetCoefficient(row, coefficient, adjustment_type) ==
    [row EXCEPT !.distance_coefficient = coefficient,
                !.price_adjustment_type = adjustment_type]

\* set_product_distance_coefficient: ... WHERE product_id = ?
SetProductDistanceCoefficient ==
    /\ pc = "idle"
    /\ \E product_id \in 1..2, coefficient \in Coefficients,
          adjustment_type \in AdjustmentTypes :
         /\ committed' = [committed EXCEPT !.products =
                [i \in DOMAIN @ |->
                    IF @[i].product_id = product_id
                    THEN SetCoefficient(@[i], coefficient, adjustment_type)
                    ELSE @[i]]]
         /\ call' = [op |-> "set_product_distance_coefficient"]
    /\ caller' = "set_product_distance_coefficient"
    /\ UNCHANGED <<customers, products, pc, files, data, todo, ret, outcome,
                   commits, log, merged, counters, tally, calls, pdf, pos>>

\* set_category_distance_coefficient: ... WHERE product_category = ?
SetCategoryDistanceCoefficient ==
    /\ pc = "idle"
    /\ \E category \in {"it_kaihatsu", "sonota"}, coefficient \in Coefficients,
          adjustment_type \in AdjustmentTypes :
         /\ committed' = [committed EXCEPT !.products =
                [i \in DOMAIN @ |->
                    IF @[i].product_category = category
                    THEN SetCoefficient(@[i], coefficient, adjustment_type)
                    ELSE @[i]]]
         /\ call' = [op |-> "set_category_distance_coefficient"]
    /\ caller' = "set_category_distance_coefficient"
    /\ UNCHANGED <<customers, products, pc, files, data, todo, ret, outcome,
                   commits, log, merged, counters, tally, calls, pdf, pos>>

\* update_all_customer_distances: for every customer without coordinates or
\* distance, geocode the address and, when that succeeds, UPDATE customers
\* SET latitude = ?, longitude = ?, distance_km = ? WHERE customer_id = ?
UpdateAllCustomerDistances ==
    /\ pc = "idle"
    /\ LET customers_to_update ==
               {i \in DOMAIN committed.customers :
                   \/ committed.customers[i].latitude = None
                   \/ committed.customers[i].longitude = None
                   \/ committed.customers[i].distance_km = None}
       IN  \E geocoded \in SUBSET customers_to_update :
              committed' = [committed EXCEPT !.customers =
                  [i \in DOMAIN @ |->
                      IF i \in geocoded
                      THEN [@[i] EXCEPT !.latitude = "lat_lon",
                                        !.longitude = "lat_lon",
                                        !.distance_km = "km"]
                      ELSE @[i]]]
    /\ call' = [op |-> "update_all_customer_distances"]
    /\ caller' = "update_all_customer_distances"
    /\ UNCHANGED <<customers, products, pc, files, data, todo, ret, outcome,
                   commits, log, merged, counters, tally, calls, pdf, pos>>

NextApp ==
    \/ AppParse
    \/ AppMerge
    \/ AddCustomer
    \/ SetProductDistanceCoefficient
    \/ SetCategoryDistanceCoefficient
    \/ UpdateAllCustomerDistances

SpecApp == InitApp /\ [][NextApp]_vars

(***************************************************************************)
(* SpecOrder: the same line items merged into the same products table in   *)
(* two orders (the order of the rows of a document, of the documents of a  *)
(* glob: import_all_pdfs merges them one after the other, so a batch is    *)
(* the concatenation of its documents).  data holds the line items in one  *)
(* order, call the same items in another; log keeps the two tables.        *)
(***************************************************************************)
\* the products table the merges start from
StartCatalogs ==
    { <<>>,
      <<[product_id |-> 1, product_name |-> "server_hoshu",
         product_category |-> "it_kaihatsu", base_price |-> 1, unit |-> "ko"]>> }

\* t holds the elements of s in some order
IsPermutation(s, t) ==
    /\ Len(s) = Len(t)
    /\ \E f \in [DOMAIN s -> DOMAIN s] :
          /\ \A i, j \in DOMAIN s : f[i] = f[j] => i = j
          /\ \A i \in DOMAIN s : t[i] = s[f[i]]

InitOrder ==
    /\ customers = <<>>
    /\ products \in StartCatalogs
    /\ committed = [customers |-> <<>>, products |-> products]
    /\ pc = "idle"
    /\ caller = "import_all_pdfs"
    /\ files = 0
    /\ \E items \in SeqsUpTo(LineItems, MaxItems), reordered \in SeqsUpTo(LineItems, MaxItems) :
         /\ IsPermutation(items, reordered)
         /\ data = [parsed |-> TRUE, customer_name |-> None, address |-> None,
                    products |-> items]
         /\ call = [op |-> "reordered", products |-> reordered]
    /\ todo = 0
    /\ ret = NoId
    /\ outcome = "none"
    /\ commits = 0
    /\ log = <<>>
    /\ merged = [n \in ProductNames |-> 0]
    /\ counters = NoCounters
    /\ tally = NoCounters
    /\ calls = <<>>
    /\ pdf = NoPdf
    /\ pos = 0

\* for product in data['products']: self.import_product(...), once for each
\* order, each time from the starting table
MergeBothOrders ==
    /\ pc = "idle"
    /\ log' = << MergeProducts(products, data.products, <<>>).table,
                 MergeProducts(products, call.products, <<>>).table >>
    /\ pc' = "merged"
    /\ UNCHANGED <<customers, products, committed, caller, files, data, todo,
                   call, ret, outcome, commits, merged, counters, tally, calls,
                   pdf, pos>>

NextOrder == MergeBothOrders

SpecOrder == InitOrder /\ [][NextOrder]_vars

(***************************************************************************)
(* SpecRace: two upload_pdf requests, each with an importer and a          *)
(* connection of its own (importer.connect()), on one database file.  A    *)
(* merge call is followed statement by statement: the SELECT by name, then *)
(* the INSERT or UPDATE that the result of the SELECT decides.             *)
(*                                                                         *)
(* The variables are functions of the session here: customers[s] and       *)
(* products[s] are the tables as session s sees them (the file plus its    *)
(* own uncommitted writes), call[s] holds the locals of the merge call in  *)
(* flight (existing: what fetchone() returned).  SQLite lets one           *)
(* connection write at a time: the first INSERT or UPDATE of a session     *)
(* opens its transaction and takes the write lock, which it keeps until    *)
(* its commit; the write of another session waits for the lock and raises  *)
(* OperationalError when the wait times out.  log is the history of the    *)
(* sessions' begins and ends.                                              *)
(***************************************************************************)
Sessions == {1, 2}

\* the documents of the two requests: a customer with an address, at most
\* one line item, counted in "ko" at a price above 0
RaceDocuments ==
    [parsed        : {TRUE},
     customer_name : CompanyNames \cup {None},
     address       : {"Tokyo"},
     products      : SeqsUpTo([name : {"server_hoshu"}, unit : {"ko"},
                               base_price : 1..MaxPrice], 1)]

\* session s has written and not committed: it holds the write lock (every
\* INSERT and every UPDATE of the importer changes the table it writes to)
InTransaction(s) ==
    customers[s] # committed.customers \/ products[s] # committed.products

LockFree(s) == \A t \in Sessions \ {s} : ~InTransaction(t)

\* INSERT INTO customers (company_name, address, phone, email)
InsertCustomerRow(cs, customer_name, address) ==
    Append(cs, [customer_id  |-> NextId(cs, "customer_id"),
                company_name |-> customer_name,
                address      |-> address,
                phone        |-> "",
                email        |-> ""])

\* INSERT INTO products (product_name, product_category, base_price, unit)
InsertProductRow(ps, product_name, unit, base_price) ==
    Append(ps, [product_id       |-> NextId(ps, "product_id"),
                product_name     |-> product_name,
                product_category |-> GuessCategory(product_name),
                base_price       |-> base_price,
                unit             |-> unit])

InitRace ==
    /\ customers = [s \in Sessions |-> <<>>]
    /\ products = [s \in Sessions |-> <<>>]
    /\ committed = EmptyTables
    /\ pc = [s \in Sessions |-> "idle"]
    /\ caller = "upload_pdf"
    /\ files = 0
    /\ data = [s \in Sessions |-> Unreadable]
    /\ todo = 0
    /\ call = [s \in Sessions |-> NoCall]
    /\ ret = NoId
    /\ outcome = "none"
    /\ commits = 0
    /\ log = <<>>
    /\ merged = [n \in ProductNames |-> 0]
    /\ counters = NoCounters
    /\ tally = NoCounters
    /\ calls = <<>>
    /\ pdf = NoPdf
    /\ pos = 0

\* importer.connect(); data = importer.parse_pdf_estimate(filepath)
RaceParse(s) ==
    /\ pc[s] = "idle"
    /\ \E d \in RaceDocuments : data' = [data EXCEPT ![s] = d]
    /\ pc' = [pc EXCEPT ![s] = "customer"]
    /\ log' = Append(log, [session |-> s, event |-> "begin"])
    /\ UNCHANGED <<customers, products, committed, caller, files, todo, call,
                   ret, outcome, commits, merged, counters, tally, calls, pdf, pos>>

\* where the session goes after the customer merge
AfterCustomer(d) == IF d.products = <<>> THEN "commit" ELSE "product"

\* if data['customer_name']: import_customer: SELECT customer_id FROM
\* customers WHERE company_name = ? ; existing = fetchone()
SelectCustomer(s) ==
    /\ pc[s] = "customer"
    /\ IF data[s].customer_name = None
       THEN /\ pc' = [pc EXCEPT ![s] = AfterCustomer(data[s])]
            /\ call' = call
       ELSE /\ pc' = [pc EXCEPT ![s] = "existing_customer"]
            /\ call' = [call EXCEPT ![s] =
                           [op |-> "import_customer",
                            existing |-> ExistingCustomer(customers[s],
                                                          data[s].customer_name)]]
    /\ UNCHANGED <<customers, products, committed, caller, files, data, todo,
                   ret, outcome, commits, log, merged, counters, tally, calls,
                   pdf, pos>>

\* if existing: return existing[0]; else INSERT INTO customers
WriteCustomer(s) ==
    /\ pc[s] = "existing_customer"
    /\ IF call[s].existing # <<>>
       THEN customers' = customers
       ELSE /\ LockFree(s)
            /\ customers' = [customers EXCEPT ![s] =
                                InsertCustomerRow(@, data[s].customer_name,
                                                  data[s].address)]
    /\ pc' = [pc EXCEPT ![s] = AfterCustomer(data[s])]
    /\ call' = [call EXCEPT ![s] = NoCall]
    /\ UNCHANGED <<products, committed, caller, files, data, todo, ret, outcome,
                   commits, log, merged, counters, tally, calls, pdf, pos>>

\* import_product: SELECT product_id, base_price FROM products WHERE
\* product_name = ? ; existing = fetchone()
SelectProduct(s) ==
    /\ pc[s] = "product"
    /\ pc' = [pc EXCEPT ![s] = "existing_product"]
    /\ call' = [call EXCEPT ![s] =
                   [op |-> "import_product",
                    existing |-> ExistingProduct(products[s],
                                                 data[s].products[1].name)]]
    /\ UNCHANGED <<customers, products, committed, caller, files, data, todo,
                   ret, outcome, commits, log, merged, counters, tally, calls,
                   pdf, pos>>

\* the statement import_product executes after its SELECT, if any
ProductWrites(existing, product) ==
    IF existing = <<>> THEN TRUE
    ELSE PriceIsHigher(product.base_price, existing[1].base_price)

\* if existing: if base_price > current_price: UPDATE products ...
\* else INSERT INTO products
WriteProduct(s) ==
    /\ pc[s] = "existing_product"
    /\ LET existing == call[s].existing
           product == data[s].products[1]
       IN  IF ~ProductWrites(existing, product)
           THEN products' = products
           ELSE /\ LockFree(s)
                /\ products' = [products EXCEPT ![s] =
                       IF existing = <<>>
                       THEN InsertProductRow(@, product.name, product.unit,
                                             product.base_price)
                       ELSE UpdateProduct(@, existing[1].product_id,
                                          product.base_price, product.unit)]
    /\ pc' = [pc EXCEPT ![s] = "commit"]
    /\ call' = [call EXCEPT ![s] = NoCall]
    /\ UNCHANGED <<customers, committed, caller, files, data, todo, ret, outcome,
                   commits, log, merged, counters, tally, calls, pdf, pos>>

\* importer.conn.commit(); importer.close(): the file takes the writes of
\* the session, and every connection without a transaction reads the file
CommitSession(s) ==
    /\ pc[s] = "commit"
    /\ committed' = [customers |-> customers[s], products |-> products[s]]
    /\ customers' = [t \in Sessions |-> customers[s]]
    /\ products' = [t \in Sessions |-> products[s]]
    /\ pc' = [pc EXCEPT ![s] = "done"]
    /\ log' = Append(log, [session |-> s, event |-> "end"])
    /\ UNCHANGED <<caller, files, data, todo, call, ret, outcome, commits,
                   merged, counters, tally, calls, pdf, pos>>

\* the wait for the write lock times out: sqlite3.OperationalError, caught
\* by upload_pdf's except Exception; the session has written nothing
LockTimeout(s) ==
    /\ \/ pc[s] = "existing_customer" /\ call[s].existing = <<>>
       \/ /\ pc[s] = "existing_product"
          /\ ProductWrites(call[s].existing, data[s].products[1])
    /\ ~LockFree(s)
    /\ pc' = [pc EXCEPT ![s] = "failed"]
    /\ call' = [call EXCEPT ![s] = NoCall]
    /\ log' = Append(log, [session |-> s, event |-> "end"])
    /\ UNCHANGED <<customers, products, committed, caller, files, data, todo,
                   ret, outcome, commits, merged, counters, tally, calls, pdf,
                   pos>>

NextRace ==
    \E s \in Sessions :
        \/ RaceParse(s)
        \/ SelectCustomer(s)
        \/ WriteCustomer(s)
        \/ SelectProduct(s)
        \/ WriteProduct(s)
        \/ CommitSession(s)
        \/ LockTimeout(s)

SpecRace == InitRace /\ [][NextRace]_vars

(***************************************************************************)
(* Properties.                                                             *)
(***************************************************************************)
HasCustomer(cs, name) == \E i \in DOMAIN cs : cs[i].company_name = name
HasProduct(ps, name)  == \E i \in DOMAIN ps : ps[i].product_name = name

\* C1: whatever merge calls one importer has made, the customers table holds
\* at most one row per company_name.
C1_UniqueCompanyName ==
    \A i, j \in DOMAIN customers :
        customers[i].company_name = customers[j].company_name => i = j

\* a second import_customer for a name already stored, beside another customer
C1_Witness ==
    /\ call.op = "import_customer"
    /\ outcome = "skipped"
    /\ HasCustomer(customers, call.customer_name)
    /\ Len(customers) = 2

\* C2: whatever merge calls one importer has made, the products table holds
\* at most one row per product_name.
C2_UniqueProductName ==
    \A i, j \in DOMAIN products :
        products[i].product_name = products[j].product_name => i = j

\* a second import_product for a name already stored, beside another product
C2_Witness ==
    /\ call.op = "import_product"
    /\ outcome \in {"skipped", "updated"}
    /\ HasProduct(products, call.product_name)
    /\ Len(products) = 2

\* C3: for a product name absent at the start, the stored base_price is the
\* largest price merged so far for that name (a row exists exactly when a
\* price above 0 was merged), and no merge call lowers a stored base_price.
C3_StoredIsLargest ==
    \A n \in ProductNames :
        /\ merged[n] > 0 <=> HasProduct(products, n)
        /\ \A i \in DOMAIN products :
               products[i].product_name = n => products[i].base_price = merged[n]

C3_NeverDecreases ==
    \A i \in DOMAIN products :
        \E j \in DOMAIN products' :
            /\ products'[j].product_id = products[i].product_id
            /\ products'[j].product_name = products[i].product_name
            /\ products'[j].base_price >= products[i].base_price

C3_MonotonicPriceConvergence == []C3_StoredIsLargest /\ [][C3_NeverDecreases]_vars

\* a lower price merged after a higher one: the higher one stays
C3_Witness ==
    /\ call.op = "import_product"
    /\ outcome = "skipped"
    /\ call.base_price > 0
    /\ \E i \in DOMAIN products :
           /\ products[i].product_name = call.product_name
           /\ products[i].base_price > call.base_price
           /\ products[i].base_price = merged[call.product_name]

\* C4: import_product for a name already stored returns the id of that row;
\* with a strictly higher price it replaces base_price and unit of that row
\* by those of the call and nothing else, with an equal or lower price it
\* changes nothing.
C4_Step ==
    (/\ call'.op = "import_product"
     /\ call'.product_name \in ProductNames
     /\ call'.base_price > 0)
    => \A i \in DOMAIN products :
           products[i].product_name = call'.product_name =>
               /\ ret' = products[i].product_id
               /\ customers' = customers
               /\ DOMAIN products' = DOMAIN products
               /\ \A j \in DOMAIN products : j # i => products'[j] = products[j]
               /\ products'[i].product_id = products[i].product_id
               /\ products'[i].product_name = products[i].product_name
               /\ products'[i].product_category = products[i].product_category
               /\ IF call'.base_price > products[i].base_price
                  THEN /\ products'[i].base_price = call'.base_price
                       /\ products'[i].unit = call'.unit
                  ELSE products'[i] = products[i]

C5_Idempotent ==
    Len(log) = 2 =>
        /\ log[2].tables = log[1].tables
        /\ \A k \in DOMAIN log[2].outcomes :
               log[2].outcomes[k] \notin {"created", "updated"}

\* a document imported twice whose two line items give one product name
\* two prices and two units, the first import creating then updating the row
C5_Witness ==
    /\ Len(log) = 2
    /\ data.parsed
    /\ Len(data.products) = 2
    /\ data.products[1].name = data.products[2].name
    /\ data.products[1].name # ""
    /\ data.products[1].unit # data.products[2].unit
    /\ data.products[1].base_price < data.products[2].base_price
    /\ \E k \in DOMAIN log[1].outcomes : log[1].outcomes[k] = "updated"
    /\ log[2].tables.products # <<>>

\* C6: import_customer for a company_name already stored returns the id of
\* the stored row and changes no row of either table, whatever address the
\* call carries.
C6_Step ==
    call'.op = "import_customer" =>
        \A i \in DOMAIN customers :
            customers[i].company_name = call'.customer_name =>
                /\ ret' = customers[i].customer_id
                /\ customers' = customers
                /\ products' = products

C6_ExistingCustomerWins == [][C6_Step]_vars

\* an existing customer merged again with another address
C6_Witness ==
    /\ call.op = "import_customer"
    /\ outcome = "skipped"
    /\ \E i \in DOMAIN customers :
           /\ customers[i].company_name = call.customer_name
           /\ customers[i].address # call.address
           /\ call.address # None
           /\ ret = customers[i].customer_id

\* C7: a run of import_all_pdfs that has ended has taken every file of the
\* glob and has committed: no failure of one document ends the batch early.
C7_BatchResilience ==
    (caller = "import_all_pdfs" /\ pc \in {"done", "aborted"}) =>
        (files = 0 /\ commits = 1)

\* C8: import_customer with a non-empty company_name that is not stored
\* inserts exactly one row with that name and address and empty phone and
\* email and returns its new id, for every address, and never raises.
C8_Step ==
    (/\ call'.op = "import_customer"
     /\ call'.customer_name \in CompanyNames
     /\ ~HasCustomer(customers, call'.customer_name))
    => /\ outcome' # "raised"
       /\ Len(customers') = Len(customers) + 1
       /\ \A i \in DOMAIN customers : customers'[i] = customers[i]
       /\ customers'[Len(customers')].company_name = call'.customer_name
       /\ customers'[Len(customers')].address = call'.address
       /\ customers'[Len(customers')].phone = ""
       /\ customers'[Len(customers')].email = ""
       /\ ret' = customers'[Len(customers')].customer_id
       /\ \A i \in DOMAIN customers : customers[i].customer_id # ret'

C8_AbsentCustomerInserted == [][C8_Step]_vars

\* C9: once a run has ended, the tables on disk hold, for every document of
\* the run, all of the records it merged or none of them, and all of them for
\* a document whose merges completed.
Visible(rec) ==
    IF rec[1] = "customers" THEN HasCustomer(committed.customers, rec[2])
    ELSE HasProduct(committed.products, rec[2])

RunEnded == pc \in {"done", "aborted", "failed", "returned"}

C9_PerDocumentAtomicity ==
    RunEnded =>
        \A i \in DOMAIN log :
            LET seen == {rec \in log[i].recs : Visible(rec)}
            IN  /\ seen = log[i].recs \/ seen = {}
                /\ log[i].status = "merged" => seen = log[i].recs

\* C10: import_product with an empty name or a price <= 0, and
\* import_customer with an empty name, return no id and change no row.
C10_Step ==
    (\/ /\ call'.op = "import_product"
        /\ (call'.product_name = "" \/ call'.base_price <= 0)
     \/ /\ call'.op = "import_customer"
        /\ call'.customer_name = "")
    => /\ ret' = NoId
       /\ customers' = customers
       /\ products' = products

C10_NoOpMerges == [][C10_Step]_vars

\* a price of 0 merged for a stored product name
C10_Witness ==
    /\ call.op = "import_product"
    /\ call.base_price = 0
    /\ HasProduct(products, call.product_name)
    /\ outcome = "noop"
    /\ ret = NoId

\* C11: when a run of import_all_pdfs or upload_pdf has ended with its
\* report, the counters of the report are the numbers of customer merges and
\* of product merges that created, updated or skipped a row: a merge call
\* that was a no-op is not counted.
C11_CountersByOutcome ==
    (caller \in {"import_all_pdfs", "upload_pdf"} /\ pc = "done") =>
        counters = tally

\* C12: when a run of import_all_pdfs has ended, every document that failed
\* to parse or to merge has been reported by exactly one error entry and no
\* document that succeeded by any.
C12_OneErrorEntryPerFailure ==
    (caller = "import_all_pdfs" /\ pc \in {"done", "aborted"}) =>
        \A i \in DOMAIN log :
            log[i].warned = IF log[i].status \in {"unreadable", "error"}
                            THEN 1 ELSE 0

\* C13: for a parsed document of a batch the merge calls are, in this order,
\* one import_customer if a customer name is present and one import_product
\* per line item; for a document that failed to parse there is none.
ExpectedCalls(d) ==
    IF ~d.parsed THEN <<>>
    ELSE (IF d.customer_name # None
          THEN <<[op |-> "import_customer", item |-> 0]>> ELSE <<>>)
         \o [k \in 1..d.items |-> [op |-> "import_product", item |-> k]]

IsPrefix(s, t) == Len(s) <= Len(t) /\ \A k \in DOMAIN s : s[k] = t[k]

C13_InOrder ==
    (caller = "import_all_pdfs" /\ pc \in {"customer", "products"}) =>
        IsPrefix(calls, ExpectedCalls(data))

DocumentEnds ==
    /\ log' # <<>>
    /\ log'[Len(log')].status \in {"unreadable", "merged", "error"}
    /\ Len(log') > Len(log) \/ log[Len(log)].status = "open"

C13_Step ==
    (caller = "import_all_pdfs" /\ DocumentEnds) =>
        calls' = ExpectedCalls(IF Len(log') > Len(log) THEN data' ELSE data)

C13_MergeCallsPerDocument == []C13_InOrder /\ [][C13_Step]_vars

\* C14: once parse_pdf_estimate has set customer_name, no later label line
\* and no later page of the document changes it, and likewise for an
\* address that is set and not empty.
C14_Step ==
    (data.parsed /\ data'.parsed) =>
        /\ data.customer_name # NoText =>
               data'.customer_name = data.customer_name
        /\ data.address \notin {NoText, <<>>} =>
               data'.address = data.address

C14_FirstFoundWins == [][C14_Step]_vars

\* C15: every line item that parse_pdf_estimate holds has a name that is
\* not empty after trimming.
C15_ItemNameNotEmpty ==
    data.parsed =>
        \A k \in DOMAIN data.products : Strip(data.products[k].name) # <<>>

\* C16: every line item that parse_pdf_estimate holds has a base_price >= 0.
C16_ItemPriceNotNegative ==
    data.parsed =>
        \A k \in DOMAIN data.products : data.products[k].base_price >= 0

\* C17: every line item that parse_pdf_estimate holds has a unit text that
\* is neither None nor blank.
C17_ItemHasUnit ==
    data.parsed =>
        \A k \in DOMAIN data.products :
            /\ data.products[k].unit # NoText
            /\ Strip(data.products[k].unit) # <<>>

\* C18: a non-negative amount n, formatted with grouping commas after either
\* yen sign and with or without the yen character behind it, is normalised
\* to n, without error.
C18_PriceRoundTrip ==
    pc = "base_price" => (outcome = "none" /\ ret = call.n)

\* the amount 12500 written with the full-width yen sign, a comma and the yen
\* character, normalised
C18_Witness ==
    /\ pc = "base_price"
    /\ call.n = 12500
    /\ pdf = <<"yen_full", "1", "2", ",", "5", "0", "0", "en">>
    /\ ret = 12500

\* C19: reading a row whose price cell is not a number after cleaning adds no
\* line item, keeps the line items of the rows before it and leaves the row
\* loop running, and a well-formed row adds its line item whatever rows were
\* dropped before it.
NotNumeric(price_str) ==
    LET cleaned == SelectSeq(price_str,
                             LAMBDA c : c \notin {"yen_full", "yen_half", ",", "en"})
    IN  \/ cleaned = <<>>
        \/ \E k \in DOMAIN cleaned :
               ~IsDigit(cleaned[k]) /\ cleaned[k] \notin {".", "-", "+", " "}

RowRead == pc = "rows" /\ pos' = pos + 1

C19_Step ==
    RowRead =>
        /\ (/\ Len(pdf') > 4
            /\ ~IsEmptyCell(pdf'[2])
            /\ ~IsEmptyCell(pdf'[5])
            /\ NotNumeric(pdf'[5]))
           => /\ data'.parsed
              /\ data'.products = data.products
              /\ pc' = "rows"
        /\ (/\ Len(pdf') > 4
            /\ pdf'[2] = <<"saaba", "-", "\n", "hoshu", " ">>
            /\ pdf'[5] = <<"yen_full", "1", ",", "2", "0", "0", "en">>)
           => /\ Len(data'.products) = Len(data.products) + 1
              /\ SubSeq(data'.products, 1, Len(data.products)) = data.products
              /\ data'.products[Len(data'.products)].name =
                     <<"saaba", "-", " ", "hoshu">>
              /\ data'.products[Len(data'.products)].base_price = 1200

C19_MalformedRowTolerance == [][C19_Step]_vars

\* three rows of one table read, the second dropped for its price, the first
\* and the third each giving a line item
C19_Witness ==
    /\ pc = "rows"
    /\ pos = 4
    /\ log = <<2>>
    /\ Len(data.products) = 2
    /\ outcome = "appended"

\* C20: _guess_category returns, for every product name, the category of the
\* first entry of the table that has a keyword contained in the name when
\* both are lowercased, and 'sonota' exactly when no entry has one.
Hit(k, text) ==
    \E keyword \in Categories[k].keywords : Contains(Lower(keyword), Lower(text))

C20_FirstCategoryWins ==
    pc = "category" =>
        LET hits == {k \in DOMAIN Categories : Hit(k, call.product_name)}
        IN  /\ outcome \in {Categories[k].category : k \in DOMAIN Categories}
                           \cup {"sonota"}
            /\ outcome = "sonota" <=> hits = {}
            /\ \A k \in hits :
                   (\A m \in hits : k <= m) => outcome = Categories[k].category

\* a name with keywords of two categories: the server word with its long
\* vowel mark (first entry) and, found only through lowercasing, "Pc" (third
\* entry); the first entry is returned
C20_Witness ==
    /\ pc = "category"
    /\ call.product_name = <<"saaba", "choon", "Pc">>
    /\ Hit(1, call.product_name)
    /\ Hit(3, call.product_name)
    /\ ~Contains(<<"PC">>, call.product_name)
    /\ outcome = "it_kaihatsu"

\* C21 as stated: every step that changes a row of the customers or products
\* table is a merge of the importer; no other entry point writes to them.
C21_SoleWriter == [][committed' # committed => call'.op = "merge"]_vars

\* C21: parse_pdf_estimate never changes the tables, and import_customer /
\* import_product are the only operations that insert product rows or change
\* a column they write; of the other entry points add_customer inserts
\* customer rows, the coefficient setters change only distance_coefficient
\* and price_adjustment_type of product rows and update_all_customer_distances
\* only latitude, longitude and distance_km of customer rows.
C21_Step ==
    /\ call'.op = "parse_pdf_estimate" => committed' = committed
    /\ call'.op # "merge" =>
          /\ DOMAIN committed'.products = DOMAIN committed.products
          /\ \A i \in DOMAIN committed.products :
                 /\ [committed'.products[i] EXCEPT
                        !.distance_coefficient =
                            committed.products[i].distance_coefficient,
                        !.price_adjustment_type =
                            committed.products[i].price_adjustment_type]
                    = committed.products[i]
                 /\ committed'.products[i] # committed.products[i] =>
                        call'.op \in {"set_product_distance_coefficient",
                                      "set_category_distance_coefficient"}
          /\ Len(committed'.customers) >= Len(committed.customers)
          /\ Len(committed'.customers) > Len(committed.customers) =>
                 call'.op = "add_customer"
          /\ \A i \in DOMAIN committed.customers :
                 /\ [committed'.customers[i] EXCEPT
                        !.latitude = committed.customers[i].latitude,
                        !.longitude = committed.customers[i].longitude,
                        !.distance_km = committed.customers[i].distance_km]
                    = committed.customers[i]
                 /\ committed'.customers[i] # committed.customers[i] =>
                        call'.op = "update_all_customer_distances"

C21_WritersOfTheCatalog == [][C21_Step]_vars

\* add_customer has inserted a second row for a company the importer had
\* stored, beside a product whose coefficient a setter has set
C21_Witness ==
    /\ call.op = "add_customer"
    /\ Len(committed.customers) = 2
    /\ committed.customers[1].company_name = committed.customers[2].company_name
    /\ committed.customers[1].phone = ""
    /\ committed.customers[2].phone = "03"
    /\ \E i \in DOMAIN committed.products :
           committed.products[i].distance_coefficient = "0.02"

\* C22: import_all_pdfs commits only when the loop has taken the last file
\* and every merge of every document is done, the commit writes all the
\* merges of the run at once and there is no second one: a run that reaches
\* the end of its loop has committed exactly once, a run over an empty file
\* list returns with no commit and no change to the tables.
C22_Commits ==
    caller = "import_all_pdfs" =>
        /\ commits = (IF pc = "done" THEN 1 ELSE 0)
        /\ pc # "done" => committed = EmptyTables
        /\ pc = "returned" => (customers = <<>> /\ products = <<>> /\ log = <<>>)

C22_Step ==
    (caller' = "import_all_pdfs" /\ (commits' # commits \/ committed' # committed))
    => /\ pc = "loop"
       /\ files = 0
       /\ \A i \in DOMAIN log : log[i].status \in {"merged", "unreadable"}
       /\ commits' = commits + 1
       /\ committed' = [customers |-> customers, products |-> products]
       /\ pc' = "done"

C22_CommitOrdering == []C22_Commits /\ [][C22_Step]_vars

\* a batch of two documents, both merged, has committed once, and the commit
\* has written a customer and a product
C22_Witness ==
    /\ caller = "import_all_pdfs"
    /\ pc = "done"
    /\ commits = 1
    /\ Len(log) = 2
    /\ log[1].status = "merged"
    /\ log[2].status = "merged"
    /\ committed.customers # <<>>
    /\ committed.products # <<>>

\* C25: a run of import_all_pdfs takes the files one at a time, parses each
\* exactly once (a step of the loop takes one file and opens one document,
\* and only when the document before it is closed, merged or unreadable),
\* makes merge calls only for the document that is open, and has taken every
\* file of the list when it ends.
C25_AllTaken ==
    (caller = "import_all_pdfs" /\ pc \in {"done", "aborted"}) =>
        files = 0

C25_Step ==
    caller' = "import_all_pdfs" =>
        /\ (files' # files \/ Len(log') # Len(log)) =>
               \/ pc = "idle" /\ log' = log
               \/ /\ pc = "loop"
                  /\ files' = files - 1
                  /\ Len(log') = Len(log) + 1
                  /\ SubSeq(log', 1, Len(log)) = log
                  /\ \A i \in DOMAIN log :
                         log[i].status \in {"merged", "unreadable"}
        /\ (calls' # calls /\ calls' # <<>>) =>
               /\ log # <<>>
               /\ log[Len(log)].status = "open"
               /\ Len(log') = Len(log)
               /\ files' = files

C25_SequentialNoRetry == []C25_AllTaken /\ [][C25_Step]_vars

\* C23: the same line items merged into the same products table in two
\* orders leave, for every product name, the same row as to base_price and
\* unit (or no row in either).
RowOf(ps, name) == SelectSeq(ps, LAMBDA r : r.product_name = name)

C23_OrderIndependent ==
    pc = "merged" =>
        \A name \in ProductNames :
            LET one == RowOf(log[1], name)
                other == RowOf(log[2], name)
            IN  /\ Len(one) = Len(other)
                /\ one # <<>> =>
                       /\ one[1].base_price = other[1].base_price
                       /\ one[1].unit = other[1].unit

\* C24: two sessions that interleave the SELECT and the INSERT of their merge
\* calls can both insert the same name, and that is the only way to two rows
\* of one company_name or product_name: as long as the sessions ran one
\* after the other, no table seen by any session or stored in the file has
\* two rows of one name.
OneAfterTheOther ==
    \A k \in DOMAIN log :
        (log[k].event = "begin" /\ k < Len(log)) =>
            (log[k + 1].session = log[k].session /\ log[k + 1].event = "end")

UniqueNames(tables) ==
    /\ \A i, j \in DOMAIN tables.customers :
           tables.customers[i].company_name = tables.customers[j].company_name
               => i = j
    /\ \A i, j \in DOMAIN tables.products :
           tables.products[i].product_name = tables.products[j].product_name
               => i = j

C24_DuplicatesOnlyWhenInterleaved ==
    OneAfterTheOther =>
        /\ UniqueNames(committed)
        /\ \A s \in Sessions :
               UniqueNames([customers |-> customers[s], products |-> products[s]])

\* both requests have ended with their commit and the file holds two rows of
\* one company_name
C24_Witness ==
    /\ \A s \in Sessions : pc[s] = "done"
    /\ Len(committed.customers) = 2
    /\ committed.customers[1].company_name = committed.customers[2].company_name
    /\ committed.customers[1].customer_id # committed.customers[2].customer_id

\* C26: reading a row of fewer than 4 cells adds no line item, and reading a
\* row of at least 4 cells with a name cell that is not empty and a price
\* cell that is normalised without error (the fifth cell, or the last cell
\* of a row of exactly 4) adds exactly one line item behind those held.
PriceToken(row) == IF Len(row) > 4 THEN row[5] ELSE row[4]

Normalizes(cell) ==
    /\ ~IsEmptyCell(cell)
    /\ LET cleaned == SelectSeq(cell,
                                LAMBDA c : c \notin {"yen_full", "yen_half", ",", "en"})
       IN  /\ cleaned # <<>>
           /\ cleaned # <<"-">>
           /\ \A k \in DOMAIN cleaned :
                  IsDigit(cleaned[k]) \/ (k = 1 /\ cleaned[k] = "-")

C26_Step ==
    RowRead =>
        /\ Len(pdf') < 4 => data'.products = data.products
        /\ (/\ Len(pdf') >= 4
            /\ ~IsEmptyCell(pdf'[2])
            /\ Normalizes(PriceToken(pdf')))
           => /\ Len(data'.products) = Len(data.products) + 1
              /\ SubSeq(data'.products, 1, Len(data.products)) = data.products

C26_RowAcceptance == [][C26_Step]_vars

\* C27: a step of the line scan changes customer_name only at a line with
\* the addressee label, and then to the trimmed text of the first of the
\* (at most) 4 lines after it that contains a company keyword and neither
\* marker; when none of those lines is such a line, customer_name stays as
\* it was, unset if it was unset.
IsCompanyLine(line) ==
    /\ \E keyword \in CompanyKeywords, k \in DOMAIN line : line[k] = keyword
    /\ \A k \in DOMAIN line : line[k] \notin {"gotantou", "hakkoumoto"}

LineScanned == pc = "lines" /\ pos' = pos + 1

C27_Step ==
    LineScanned =>
        LET labelled == \E k \in DOMAIN pdf[pos] : pdf[pos][k] = "atesaki"
            found == {j \in (pos + 1)..(pos + 4) :
                         j <= Len(pdf) /\ IsCompanyLine(pdf[j])}
        IN  /\ data'.parsed
            /\ IF labelled /\ found # {}
               THEN \E j \in found :
                       /\ \A m \in found : j <= m
                       /\ data'.customer_name = Strip(pdf[j])
               ELSE data'.customer_name = data.customer_name

C27_AddresseeSearch == [][C27_Step]_vars

\* the label, then the issuer line with a company keyword, two blank lines,
\* a company line with blanks around it and a second company line, 5 lines
\* after the label: the scan of the label line has set the trimmed fourth
\* line after the label
C27_Witness ==
    /\ pdf = << <<"atesaki">>,
                <<"hakkoumoto", ":", "kabushiki_gaisha", "Jisha">>,
                <<" ">>, <<" ">>,
                <<" ", "Test", "yugen_gaisha", " ">>,
                <<"kabushiki_gaisha", "Sample">> >>
    /\ pos = 2
    /\ data.customer_name = <<"Test", "yugen_gaisha">>

\* C28: a step of the line scan changes the address only at a line with the
\* work-site label: to the trimmed text behind the label and its delimiters
\* when there is a delimiter and that text is not empty; otherwise to the
\* trimmed next line when there is one, it is not blank and it contains none
\* of the labels for the work day, the work name and the item; otherwise the
\* address stays as it was.  It is never set to an empty text.
ValueAfterLabel(line) ==
    LET at == CHOOSE k \in DOMAIN line :
                  /\ line[k] = "sagyobasho"
                  /\ \A m \in DOMAIN line : line[m] = "sagyobasho" => k <= m
        rest == SubSeq(line, at + 1, Len(line))
        inked == {k \in DOMAIN rest : rest[k] \notin {":", " "}}
    IN  IF rest = <<>> \/ rest[1] \notin {":", " "} \/ inked = {} THEN <<>>
        ELSE SubSeq(rest, CHOOSE k \in inked : \A m \in inked : k <= m,
                          CHOOSE k \in inked : \A m \in inked : m <= k)

IsOtherLabelLine(line) ==
    \E k \in DOMAIN line : line[k] \in {"sagyobi", "sagyomei", "koumoku"}

C28_Step ==
    LineScanned =>
        LET line == pdf[pos]
            labelled == \E k \in DOMAIN line : line[k] = "sagyobasho"
        IN  IF ~labelled THEN data'.address = data.address
            ELSE IF ValueAfterLabel(line) # <<>>
            THEN data'.address = ValueAfterLabel(line)
            ELSE IF /\ pos < Len(pdf)
                    /\ \E k \in DOMAIN pdf[pos + 1] : pdf[pos + 1][k] # " "
                    /\ ~IsOtherLabelLine(pdf[pos + 1])
            THEN data'.address = Strip(pdf[pos + 1])
            ELSE data'.address = data.address

C28_AddressSearch == [][C28_Step]_vars

\* C29: the rows of a table are read exactly when its first row has a cell
\* whose text includes the item-name keyword (an empty table, an empty first
\* row and any other first row are passed over with the line items
\* unchanged), and the line items change in no other way than by a row of
\* such a table adding one item behind those held: the items stand in the
\* order in which pages, tables and rows are read.
HasItemNameCell(header) ==
    \E c \in DOMAIN header :
        /\ header[c] # NoText
        /\ \E k \in DOMAIN header[c] : header[c][k] = "hinmei"

C29_Step ==
    /\ (pc = "pages" /\ pc' = "rows") => HasItemNameCell(pdf')
    /\ (pc = "pages" /\ pc' = "pages" /\ pdf' # pdf) => ~HasItemNameCell(pdf')
    /\ (pc = "pages" /\ data'.parsed) => data'.products = data.products
    /\ (pc = "rows" /\ data'.products # data.products) =>
          /\ pc' = "rows"
          /\ Len(data'.products) = Len(data.products) + 1
          /\ SubSeq(data'.products, 1, Len(data.products)) = data.products
          /\ Len(pdf') > 4
          /\ data'.products[Len(data'.products)].unit = pdf'[4]

C29_OnlyItemTablesInOrder == [][C29_Step]_vars

\* the first row of an item table has given the second line item; the first
\* one came from a table read before it
C29_Witness ==
    /\ pc = "rows"
    /\ pos = 2
    /\ outcome = "appended"
    /\ Len(data.products) = 2
    /\ data.products[2].unit = pdf[4]

\* C30: every row of the products table has a product_name that is not empty
\* and a base_price of at least 1, and every merge call that inserts a row
\* or changes one leaves in it the name, the price and the unit of that one
\* call: no row holds the price of one call beside the unit of another.
C30_StoredRows ==
    \A i \in DOMAIN products :
        /\ products[i].product_name \notin {None, ""}
        /\ products[i].base_price >= 1

C30_Step ==
    \A j \in DOMAIN products' :
        (j \notin DOMAIN products \/ products'[j] # products[j]) =>
            /\ call'.op = "import_product"
            /\ products'[j].product_name = call'.product_name
            /\ products'[j].base_price = call'.base_price
            /\ products'[j].unit = call'.unit

C30_RowsOfOneCall == []C30_StoredRows /\ [][C30_Step]_vars

\* a stored product whose price and unit both came from the update that a
\* higher price made, at the highest price of the model
C30_Witness ==
    /\ call.op = "import_product"
    /\ outcome = "updated"
    /\ call.base_price = MaxPrice
    /\ call.unit = "dai"
    /\ Len(products) = 1
    /\ products[1].base_price = MaxPrice
    /\ products[1].unit = "dai"

====
